---- MODULE Spec2Model ----
(***************************************************************************)
(* The tiller Installer of kibosh (src/helm/installer.go): the             *)
(* install-or-upgrade decision of Install(), its health-polling loop and   *)
(* the maxWait setter, together with the collaborators Install() calls     *)
(* (private-registry setup, helm client, cluster accessor).                *)
(*                                                                         *)
(* Strings are sequences of chunks: the chunk ":" is the colon, every      *)
(* other chunk is a colon-free piece of text.  Version tags are spelled    *)
(* chunk by chunk ("1", ".", "0", ...), so that strings.Split and the      *)
(* semantic-version parser work on the text of a reference.                *)
(*                                                                         *)
(* Durations count ticks of time.Duration.  Second stands for time.Second  *)
(* and keeps what the loop depends on: it is a multiple of ten ticks.      *)
(***************************************************************************)
EXTENDS Integers, Sequences, FiniteSets, TLC

\* ---------------------------------------------------------------- bounds

\* SetMaxWait is called with 0..MaxWait ticks (or the default).
MaxWait == 21

\* The per-invocation count of health checks saturates here.
MaxChecks == 23

\* At most this many SetMaxWait calls and registry changes in one behaviour.
MaxSets == 2

\* At most this many SetMaxWait calls while two callers run at the same time.
MaxRaces == 1

\* ------------------------------------------------------------- constants

Second == 10

\* a default of six seconds
DefaultMaxWaitShort == 6 * Second

DefaultMaxWait == 60 * Second

serviceAccount == "tiller"

nameSpace == "kube-system"

Procs == {1, 2}

\* ---------------------------------------------------------------- strings

Colon == ":"

Dot == "."

Digits == {"0", "1", "2", "9"}

DigitVal(c) == CASE c = "0" -> 0 [] c = "1" -> 1 [] c = "2" -> 2 [] OTHER -> 9

\* strings.Split(s, sep) for a one-chunk separator: the pieces between the
\* separators, one more than there are separators
Split(s, sep) ==
    LET pos      == {i \in 1..Len(s) : s[i] = sep}
        n        == Cardinality(pos)
        at(j)    == CHOOSE i \in pos : Cardinality({x \in pos : x < i}) = j - 1
        first(j) == IF j = 1 THEN 1 ELSE at(j - 1) + 1
        last(j)  == IF j = n + 1 THEN Len(s) ELSE at(j) - 1
    IN  [j \in 1..(n + 1) |-> SubSeq(s, first(j), last(j))]

IsNumber(s) == Len(s) > 0 /\ \A i \in 1..Len(s) : s[i] \in Digits

\* strconv.ParseInt of a run of digits
NumVal(s) ==
    LET val[i \in 0..Len(s)] == IF i = 0 THEN 0 ELSE 10 * val[i - 1] + DigitVal(s[i])
    IN  val[Len(s)]

\* semver.NewVersion: an optional "v", then one to three dot-separated
\* numbers; the missing ones are 0.  Anything else is an error.
NewVersion(s) ==
    LET body  == IF Len(s) > 0 /\ s[1] = "v" THEN Tail(s) ELSE s
        parts == Split(body, Dot)
        ok    == Len(parts) \in 1..3 /\ \A i \in 1..Len(parts) : IsNumber(parts[i])
        at(i) == IF i <= Len(parts) THEN NumVal(parts[i]) ELSE 0
    IN  IF ok THEN [ok |-> TRUE, major |-> at(1), minor |-> at(2), patch |-> at(3)]
        ELSE [ok |-> FALSE, major |-> 0, minor |-> 0, patch |-> 0]

\* (*Version).GreaterThan
GreaterThan(a, b) ==
    \/ a.major > b.major
    \/ a.major = b.major /\ a.minor > b.minor
    \/ a.major = b.major /\ a.minor = b.minor /\ a.patch > b.patch

\* ------------------------------------------------------------ references

PublicPrefix == <<"gcr.io/kubernetes-helm", "/tiller", Colon>>

V100 == <<"1", Dot, "0", Dot, "0">>

V110 == <<"1", Dot, "1", Dot, "0">>

V190 == <<"1", Dot, "9", Dot, "0">>

V200 == <<"2", Dot, "0", Dot, "0">>

Latest == <<"latest">>

\* the values of the package variable tillerTag
Tags == {V110, V190, Latest}

PlainServer == <<"registry.example.com">>

PortServer == <<"localhost", Colon, "5000">>

NoRegistry == [has |-> FALSE, Server |-> <<>>]

RegistryConfigs ==
    {NoRegistry, [has |-> TRUE, Server |-> PlainServer], [has |-> TRUE, Server |-> PortServer]}

NoImage == <<>>

\* the image of the first container of a tiller deployment found in the cluster
ExistingImages ==
    { PublicPrefix \o V100,
      PublicPrefix \o V200,
      PublicPrefix \o Latest,
      PortServer \o <<"/tiller", Colon>> \o V100,
      <<"tiller">> }

\* ------------------------------------------------------------------ state

VARIABLES
    maxWait,         \* installer.maxWait
    registryConfig,  \* *installer.registryConfig
    tillerTag,       \* the package variable tillerTag
    deployment,      \* image of kube-system/tiller-deploy, NoImage when absent
    cluster,         \* "healthy" | "unhealthy" (tiller never answers) | "faulty"
    crashed,         \* an Install() panicked: the process is gone
    pc,              \* the position of each caller inside Install()
    tillerImage,     \* local of Install()
    existingImage,   \* local of Install()
    waited,          \* local of Install()
    result,          \* what Install() returned: <<>> is nil
    hist,            \* what this invocation has done so far
    prevCreated,     \* the image the caller's previous Install() created
    nSets,           \* SetMaxWait calls and registry changes so far
    lastWait         \* the argument of the latest SetMaxWait, NeverSet before any

vars == <<maxWait, registryConfig, tillerTag, deployment, cluster, crashed, pc,
          tillerImage, existingImage, waited, result, hist, prevCreated, nSets, lastWait>>

\* ----------------------------------------------------------------- errors

Nil == <<>>

ErrSetup == <<"registry setup failed">>

ErrInstall == <<"install failed">>

ErrGet == <<"get deployment failed">>

ErrUpgrade == <<"upgrade failed">>

\* a loop that gives up without an error
ErrDeadlineSwallowed == <<>>

ErrDeadline == <<"Didn't become healthy within max time">>

Panic == <<"panic">>

\* a wrap that loses its message
WrapDropped(err, msg) == err

\* errors.Wrap(err, msg)
Wrap(err, msg) == <<msg>> \o err

\* helmstaller.Options of one invocation
Options(image) ==
    [Namespace |-> nameSpace, ImageSpec |-> image, ServiceAccount |-> serviceAccount]

NoOptions == [Namespace |-> "", ImageSpec |-> NoImage, ServiceAccount |-> ""]

\* ------------------------------------------------------- version decision

\* installer.isNewerVersion; "panic" is semver.MustParse panicking.  The new
\* version is parsed first (the receiver), then the existing one.
isNewerVersion(existing, newImage) ==
    LET existingVersionSplit == Split(existing, Colon)
        newVersionSplit      == Split(newImage, Colon)
    IN  IF Len(existingVersionSplit) < 2 THEN "true"
        ELSE IF Len(newVersionSplit) < 2 THEN "true"
        ELSE LET newVersion      == NewVersion(newVersionSplit[2])
                 existingVersion == NewVersion(existingVersionSplit[2])
             IN  IF ~newVersion.ok \/ ~existingVersion.ok THEN "panic"
                 ELSE IF GreaterThan(newVersion, existingVersion) THEN "true"
                 ELSE "false"

\* the comparison without the test for equal images
DecideByVersionOnly(existing, image) ==
    LET newer == isNewerVersion(existing, image)
    IN  IF newer = "panic" THEN "panic"
        ELSE IF newer = "false" THEN "return"
        ELSE "upgrade"

\* Install(), after GetDeployment succeeded: "return" (nil, at once),
\* "upgrade" or "panic"
Decide(existing, image) ==
    IF existing = image THEN "return"
    ELSE LET newer == isNewerVersion(existing, image)
         IN  IF newer = "panic" THEN "panic"
             ELSE IF newer = "false" THEN "return"
             ELSE "upgrade"

\* ------------------------------------------------------------------- init

NeverSet == -1

NoHist ==
    [nSetup |-> 0, nInstall |-> 0, nGet |-> 0, nUpgrade |-> 0, nList |-> 0,
     nSleep |-> 0, slept |-> 0, installOpts |-> NoOptions, upgradeOpts |-> NoOptions,
     setup |-> "none", installed |-> "none", getOk |-> FALSE, newer |-> "none", upgraded |-> FALSE,
     lastHealthy |-> FALSE, anyHealthy |-> FALSE, setSince |-> FALSE, mwAtCall |-> 0,
     prev |-> NoImage, calls |-> <<>>, registry |-> NoRegistry, prevImage |-> NoImage,
     seen |-> 0, mwRead |-> 0, lastSlice |-> 0, mwSince |-> {}]

Init ==
    /\ maxWait = DefaultMaxWait
    /\ registryConfig \in RegistryConfigs
    /\ tillerTag \in Tags
    /\ deployment \in ExistingImages \cup {NoImage}
    /\ cluster \in {"healthy", "unhealthy", "faulty"}
    /\ crashed = FALSE
    /\ pc = [p \in Procs |-> "idle"]
    /\ tillerImage = [p \in Procs |-> NoImage]
    /\ existingImage = [p \in Procs |-> NoImage]
    /\ waited = [p \in Procs |-> 0]
    /\ result = [p \in Procs |-> Nil]
    /\ hist = [p \in Procs |-> NoHist]
    /\ prevCreated = [p \in Procs |-> NoImage]
    /\ nSets = 0
    /\ lastWait = NeverSet

\* ---------------------------------------------------------------- actions

Running(p) == pc[p] \notin {"idle", "done"}

\* the invocation of caller p has returned
Done(p) == pc[p] = "done"

Min(a, b) == IF a < b THEN a ELSE b

\* Install() returns err to its caller
Return(p, err, h) ==
    /\ pc' = [pc EXCEPT ![p] = "done"]
    /\ result' = [result EXCEPT ![p] = err]
    /\ hist' = [hist EXCEPT ![p] = h]
    /\ prevCreated' = [prevCreated EXCEPT ![p] =
                          IF h.installed = "ok" THEN h.installOpts.ImageSpec ELSE NoImage]

\* Install() is called: lines 67-70, the public image and the registry test
Call(p) ==
    /\ ~crashed
    /\ ~Running(p)
    /\ tillerImage' = [tillerImage EXCEPT ![p] = PublicPrefix \o tillerTag]
    /\ pc' = [pc EXCEPT ![p] = IF registryConfig.has THEN "setup" ELSE "install"]
    /\ existingImage' = [existingImage EXCEPT ![p] = NoImage]
    /\ waited' = [waited EXCEPT ![p] = 0]
    /\ result' = [result EXCEPT ![p] = Nil]
    /\ hist' = [hist EXCEPT ![p] = [NoHist EXCEPT !.prev = prevCreated[p],
                                                  !.mwAtCall = maxWait,
                                                  !.seen = maxWait,
                                                  !.mwSince = {maxWait},
                                                  !.registry = registryConfig,
                                                  !.prevImage = hist[p].installOpts.ImageSpec]]
    /\ UNCHANGED <<maxWait, registryConfig, tillerTag, deployment, cluster, crashed,
                   prevCreated, nSets, lastWait>>

\* what privateRegistrySetup.Setup() can answer
SetupResults == IF cluster = "faulty" THEN {Nil, ErrSetup} ELSE {Nil}

\* a setup error that is not looked at
SetupFailedNever(err) == FALSE

\* line 73: err != nil
SetupFailed(err) == err # Nil

\* an image that keeps the public host
PrivateImagePublic == PublicPrefix \o tillerTag

\* line 77: the image in the private registry
PrivateImage == registryConfig.Server \o <<"/tiller", Colon>> \o tillerTag

\* lines 71-78: privateRegistrySetup.Setup() and the private image
Setup(p) ==
    /\ ~crashed
    /\ pc[p] = "setup"
    /\ \E err \in SetupResults :
         LET h == [hist[p] EXCEPT !.nSetup = @ + 1,
                                  !.calls = Append(@, "Setup"),
                                  !.setup = IF err = Nil THEN "ok" ELSE "error"]
         IN  IF SetupFailed(err)
             THEN /\ Return(p, err, h)
                  /\ UNCHANGED tillerImage
             ELSE /\ tillerImage' = [tillerImage EXCEPT ![p] = PrivateImage]
                  /\ pc' = [pc EXCEPT ![p] = "install"]
                  /\ hist' = [hist EXCEPT ![p] = h]
                  /\ UNCHANGED <<result, prevCreated>>
    /\ UNCHANGED <<maxWait, registryConfig, tillerTag, deployment, cluster, crashed,
                   existingImage, waited, nSets, lastWait>>

\* what i.client.Install can answer
InstallResults ==
    (IF deployment = NoImage THEN {"ok"} ELSE {"exists"})
        \cup (IF cluster = "faulty" THEN {"error"} ELSE {})

\* an error test that takes every error for already-exists
AfterInstallAnyExists(err) == IF err = "ok" THEN "check" ELSE "get"

\* lines 87-90: where Install() goes on after client.Install
AfterInstall(err) ==
    IF err = "ok" THEN "check"
    ELSE IF err = "exists" THEN "get"
    ELSE "return"

\* lines 80-90: i.client.Install(&options)
ClientInstall(p) ==
    /\ ~crashed
    /\ pc[p] = "install"
    /\ \E err \in InstallResults :
         LET options == Options(tillerImage[p])
             h == [hist[p] EXCEPT !.nInstall = @ + 1, !.installOpts = options,
                                  !.calls = Append(@, "Install"),
                                  !.installed = err]
         IN  /\ deployment' = IF err = "ok" THEN options.ImageSpec ELSE deployment
             /\ IF AfterInstall(err) = "return"
                THEN Return(p, Wrap(ErrInstall, "Error installing new helm"), h)
                ELSE /\ pc' = [pc EXCEPT ![p] = AfterInstall(err)]
                     /\ hist' = [hist EXCEPT ![p] = h]
                     /\ UNCHANGED <<result, prevCreated>>
    /\ UNCHANGED <<maxWait, registryConfig, tillerTag, cluster, crashed, tillerImage,
                   existingImage, waited, nSets, lastWait>>

\* lines 92-96: i.cluster.GetDeployment and the image of its first container
GetDeployment(p) ==
    /\ ~crashed
    /\ pc[p] = "get"
    /\ LET h == [hist[p] EXCEPT !.nGet = @ + 1, !.calls = Append(@, "Get")]
       IN  \/ /\ deployment # NoImage
              /\ existingImage' = [existingImage EXCEPT ![p] = deployment]
              /\ pc' = [pc EXCEPT ![p] = "compare"]
              /\ hist' = [hist EXCEPT ![p] = [h EXCEPT !.getOk = TRUE]]
              /\ UNCHANGED <<result, prevCreated>>
           \/ /\ cluster = "faulty"
              /\ Return(p, ErrGet, h)
              /\ UNCHANGED existingImage
    /\ UNCHANGED <<maxWait, registryConfig, tillerTag, deployment, cluster, crashed,
                   tillerImage, waited, nSets, lastWait>>

\* a comparison that reads the deployment again
SnapshotFresh(p) == deployment

\* lines 97 and 100 test the image read at line 96, not the deployment as it
\* is by now
Snapshot(p) == existingImage[p]

\* lines 97-102: the comparison of the two images
Compare(p) ==
    /\ ~crashed
    /\ pc[p] = "compare"
    /\ \E d \in {Decide(Snapshot(p), tillerImage[p])} :
       \E h \in {[hist[p] EXCEPT !.newer = IF Snapshot(p) = tillerImage[p] THEN "none"
                                          ELSE isNewerVersion(Snapshot(p), tillerImage[p])]} :
           IF d = "return"
           THEN /\ Return(p, Nil, h)
                /\ UNCHANGED crashed
           ELSE IF d = "upgrade"
           THEN /\ pc' = [pc EXCEPT ![p] = "upgrade"]
                /\ hist' = [hist EXCEPT ![p] = h]
                /\ UNCHANGED <<result, prevCreated, crashed>>
           ELSE /\ Return(p, Panic, h)
                /\ crashed' = TRUE
    /\ UNCHANGED <<maxWait, registryConfig, tillerTag, deployment, cluster, tillerImage,
                   existingImage, waited, nSets, lastWait>>

\* lines 103-106: i.client.Upgrade(&options)
Upgrade(p) ==
    /\ ~crashed
    /\ pc[p] = "upgrade"
    /\ LET options == Options(tillerImage[p])
           h == [hist[p] EXCEPT !.nUpgrade = @ + 1, !.upgradeOpts = options,
                                !.calls = Append(@, "Upgrade")]
       IN  \/ /\ deployment' = options.ImageSpec
              /\ pc' = [pc EXCEPT ![p] = "check"]
              /\ hist' = [hist EXCEPT ![p] = [h EXCEPT !.upgraded = TRUE]]
              /\ UNCHANGED <<result, prevCreated>>
           \/ /\ cluster = "faulty"
              /\ Return(p, Wrap(ErrUpgrade, "Error upgrading helm"), h)
              /\ UNCHANGED deployment
    /\ UNCHANGED <<maxWait, registryConfig, tillerTag, cluster, crashed, tillerImage,
                   existingImage, waited, nSets, lastWait>>

\* installer.helmHealthy: what i.client.ListReleases() can answer
helmHealthy == IF cluster = "healthy" THEN {TRUE}
               ELSE IF cluster = "unhealthy" THEN {FALSE}
               ELSE {TRUE, FALSE}

\* a deadline test that needs the wait to exceed maxWait
DeadlinePassedStrict(w, mw) == w > mw

\* a slice that is rounded up
SliceRoundedUp(mw) == mw \div 10 + 1

\* a deadline that a zero maxWait does not reach before a sleep
DeadlinePassedPositive(w, mw) == w > 0 /\ w >= mw

\* a deadline that is taken one slice early
DeadlinePassedEarly(w, mw) == w + mw \div 10 >= mw

\* line 115: the deadline test
DeadlinePassed(w, mw) == w >= mw

\* line 118: one slice
Slice(mw) == mw \div 10

\* a read that takes the value NewInstaller gave
ReadMaxWaitDefault(p) == {DefaultMaxWait}

\* What a read of i.maxWait at line 115 or 118 can give.  The field is read
\* and written without synchronisation: a read that races with SetMaxWait
\* gives the value as it is now or the one this invocation saw last.
ReadMaxWait(p) == {maxWait, hist[p].seen}

\* ListReleases is one more entry of the call order only after another call
AppendList(calls) ==
    IF Len(calls) > 0 /\ calls[Len(calls)] = "List" THEN calls ELSE Append(calls, "List")

\* lines 111-117: one health check and the deadline test
Check(p) ==
    /\ ~crashed
    /\ pc[p] = "check"
    /\ \E healthy \in helmHealthy :
         LET h == [hist[p] EXCEPT !.nList = Min(@ + 1, MaxChecks),
                                  !.calls = AppendList(@),
                                  !.lastHealthy = healthy,
                                  !.anyHealthy = @ \/ healthy]
         IN  IF healthy THEN Return(p, Nil, h)
             ELSE \E mw \in ReadMaxWait(p) :
                    LET h2 == [h EXCEPT !.seen = mw, !.mwRead = mw]
                    IN  IF DeadlinePassed(waited[p], mw) THEN Return(p, ErrDeadline, h2)
                        ELSE /\ pc' = [pc EXCEPT ![p] = "sleep"]
                             /\ hist' = [hist EXCEPT ![p] = h2]
                             /\ UNCHANGED <<result, prevCreated>>
    /\ UNCHANGED <<maxWait, registryConfig, tillerTag, deployment, cluster, crashed,
                   tillerImage, existingImage, waited, nSets, lastWait>>

\* lines 118-120: one slice of sleep
Sleep(p) ==
    /\ ~crashed
    /\ pc[p] = "sleep"
    /\ \E mw \in ReadMaxWait(p) :
         LET willWait == Slice(mw)
         IN  /\ waited' = [waited EXCEPT ![p] = @ + willWait]
             /\ hist' = [hist EXCEPT ![p] = [@ EXCEPT !.nSleep = Min(@ + 1, MaxChecks),
                                                      !.slept = @ + willWait,
                                                      !.seen = mw,
                                                      !.lastSlice = willWait]]
    /\ pc' = [pc EXCEPT ![p] = "check"]
    /\ UNCHANGED <<maxWait, registryConfig, tillerTag, deployment, cluster, crashed,
                   tillerImage, existingImage, result, prevCreated, nSets, lastWait>>

\* installer.SetMaxWait
SetMaxWait(wait) ==
    /\ ~crashed
    /\ nSets < MaxSets
    /\ maxWait' = wait
    /\ nSets' = nSets + 1
    /\ lastWait' = wait
    /\ hist' = [p \in Procs |-> [hist[p] EXCEPT !.setSince = TRUE,
                                                 !.mwSince = IF Running(p) THEN @ \cup {wait}
                                                             ELSE @]]
    /\ UNCHANGED <<registryConfig, tillerTag, deployment, cluster, crashed, pc,
                   tillerImage, existingImage, waited, result, prevCreated>>

\* the caller changes the registry configuration between two calls
SetRegistryConfig(r) ==
    /\ ~crashed
    /\ nSets < MaxSets
    /\ \A p \in Procs : ~Running(p)
    /\ r # registryConfig
    /\ registryConfig' = r
    /\ nSets' = nSets + 1
    /\ prevCreated' = [p \in Procs |-> NoImage]
    /\ UNCHANGED <<maxWait, tillerTag, deployment, cluster, crashed, pc, tillerImage,
                   existingImage, waited, result, hist, lastWait>>

\* one step of caller p inside Install()
Step(p) ==
    \/ Call(p)
    \/ Setup(p)
    \/ ClientInstall(p)
    \/ GetDeployment(p)
    \/ Compare(p)
    \/ Upgrade(p)
    \/ Check(p)
    \/ Sleep(p)

Idle == \A p \in Procs : ~Running(p)

\* One caller, every image and registry; maxWait is the default or zero.
Next ==
    \/ Step(1)
    \/ \E w \in {0, DefaultMaxWait} : SetMaxWait(w)
    \/ \E r \in RegistryConfigs : SetRegistryConfig(r)

Spec == Init /\ [][Next]_vars

\* One caller that sets maxWait to any of 0..MaxWait between its calls, on a
\* cluster where tiller 1.1.0 is to be installed, or to replace tiller 1.0.0.
InitPoll ==
    /\ Init
    /\ registryConfig \in {NoRegistry, [has |-> TRUE, Server |-> PlainServer]}
    /\ tillerTag = V110
    /\ deployment \in {NoImage, PublicPrefix \o V100}
    /\ cluster \in {"unhealthy", "faulty"}

NextPoll ==
    \/ Step(1)
    \/ \E w \in 0..MaxWait : Idle /\ SetMaxWait(w)

SpecPoll == InitPoll /\ [][NextPoll]_vars

\* The same caller, replacing tiller 1.0.0 through a private registry.  The
\* polling loop keeps running: it does not stop before a health check or a
\* sleep it has reached.
InitFair ==
    /\ InitPoll
    /\ registryConfig = [has |-> TRUE, Server |-> PlainServer]
    /\ deployment = PublicPrefix \o V100

FairPoll ==
    /\ InitFair
    /\ [][NextPoll]_vars
    /\ \A p \in Procs : WF_vars(Check(p)) /\ WF_vars(Sleep(p))

\* Two callers, each with one invocation of Install(), and a third party
\* setting maxWait, all at the same time, on a cluster where every call can
\* fail or succeed.
InitConc ==
    /\ Init
    /\ registryConfig = [has |-> TRUE, Server |-> PlainServer]
    /\ tillerTag = V110
    /\ deployment \in {NoImage, PublicPrefix \o V100}
    /\ cluster = "faulty"

NextConc ==
    \/ \E p \in Procs : ~Done(p) /\ Step(p)
    \/ \E w \in {0, 2 * Second} : nSets < MaxRaces /\ SetMaxWait(w)

SpecConc == InitConc /\ [][NextConc]_vars

\* ----------------------------------------------------- the claims' terms

\* the substring after the final ":" of a reference
VersionText(ref) == LET parts == Split(ref, Colon) IN parts[Len(parts)]

HasColon(ref) == Len(Split(ref, Colon)) >= 2

\* both references carry a version that is a semantic version
Comparable(existing, image) ==
    /\ HasColon(existing) /\ NewVersion(VersionText(existing)).ok
    /\ HasColon(image) /\ NewVersion(VersionText(image)).ok

\* the resolved version is strictly greater than the existing one
StrictlyGreater(existing, image) ==
    /\ Comparable(existing, image)
    /\ GreaterThan(NewVersion(VersionText(image)), NewVersion(VersionText(existing)))

\* the data model's order: a reference without a version, or with one that is
\* no semantic version, makes the resolved reference the newer one
TreatedAsNewer(existing, image) ==
    ~Comparable(existing, image) \/ StrictlyGreater(existing, image)

\* caller p has found the deployment to exist and has read its image
Observed(p) == hist[p].installed = "exists" /\ hist[p].getOk

\* ----------------------------------------------------------------- claims

\* C1: Upgrade is called only after Install failed with already-exists, with
\* an existing image that differs from the resolved one and is older than it;
\* with a resolved version that is older or equal, Install() issues no
\* Upgrade and returns nil.
C1_NoDowngrade ==
    \A p \in Procs :
        /\ hist[p].nUpgrade > 0 =>
              /\ Observed(p)
              /\ existingImage[p] # tillerImage[p]
              /\ TreatedAsNewer(existingImage[p], tillerImage[p])
        /\ ( /\ Done(p)
             /\ Observed(p)
             /\ Comparable(existingImage[p], tillerImage[p])
             /\ ~StrictlyGreater(existingImage[p], tillerImage[p]) )
           => hist[p].nUpgrade = 0 /\ result[p] = Nil

\* C2: an Install() that follows one that created the deployment, with the
\* tag and the registry unchanged and no collaborator failing, finds the
\* existing image equal to the resolved one, issues no Upgrade and returns nil.
C2_Idempotent ==
    \A p \in Procs :
        (Done(p) /\ hist[p].prev # NoImage /\ cluster # "faulty") =>
            /\ hist[p].nUpgrade = 0
            /\ result[p] = Nil
            /\ existingImage[p] = tillerImage[p]

C2_Witness ==
    \E p \in Procs :
        /\ Done(p) /\ hist[p].prev # NoImage /\ cluster = "healthy"
        /\ hist[p].installed = "exists" /\ tillerTag = Latest

\* C3 as stated: Install() returns nil only after a health check of this
\* invocation has succeeded.
C3_HealthBeforeSuccess ==
    \A p \in Procs : (Done(p) /\ result[p] = Nil) => hist[p].lastHealthy

\* C3, amended: Install() returns nil after a successful health check when
\* it installed or upgraded the deployment, and without any health check
\* when the deployment exists with an equal or a not-newer image.
C3_HealthAfterChange ==
    \A p \in Procs :
        (Done(p) /\ result[p] = Nil) =>
            IF hist[p].installed = "ok" \/ hist[p].upgraded
            THEN hist[p].lastHealthy /\ hist[p].nList >= 1
            ELSE /\ hist[p].nList = 0
                 /\ Observed(p)
                 /\ \/ existingImage[p] = tillerImage[p]
                    \/ hist[p].newer = "false"

C3_Witness ==
    \E p \in Procs :
        /\ Done(p) /\ result[p] = Nil /\ hist[p].upgraded
        /\ hist[p].lastHealthy /\ hist[p].nList > 1

\* C4: with a health check that always fails, an Install() that has reached
\* the polling loop returns the deadline-exceeded error.
C4_PollTerminates ==
    \A p \in Procs :
        (pc[p] = "check" /\ cluster = "unhealthy")
            ~> (Done(p) /\ result[p] = ErrDeadline)

\* C5 as stated: an Install() that returns the deadline-exceeded error has
\* made at most 10 health checks.
C5_AtMostTenChecks ==
    \A p \in Procs :
        (Done(p) /\ result[p] = ErrDeadline /\ ~hist[p].setSince) => hist[p].nList <= 10

\* C5, amended: an Install() that returns the deadline-exceeded error has
\* made at most 20 health checks: 11 when maxWait is a positive multiple of
\* ten ticks, 1 when maxWait is zero.
C5_AtMostTwentyChecks ==
    \A p \in Procs :
        (Done(p) /\ result[p] = ErrDeadline /\ ~hist[p].setSince) =>
            /\ hist[p].nList <= 20
            /\ (hist[p].mwAtCall > 0 /\ hist[p].mwAtCall % 10 = 0) => hist[p].nList = 11
            /\ hist[p].mwAtCall = 0 => hist[p].nList = 1

C5_Witness ==
    \E p \in Procs :
        /\ Done(p) /\ result[p] = ErrDeadline /\ ~hist[p].setSince
        /\ cluster = "unhealthy" /\ hist[p].nList = 20

\* C6: when the registry setup fails, Install() returns that error as it is,
\* calls neither client.Install, GetDeployment, client.Upgrade nor
\* ListReleases, and leaves maxWait as it was.
C6_RegistryFailure ==
    \A p \in Procs :
        hist[p].setup = "error" =>
            /\ Done(p) /\ result[p] = ErrSetup
            /\ hist[p].nInstall = 0 /\ hist[p].nGet = 0
            /\ hist[p].nUpgrade = 0 /\ hist[p].nList = 0
            /\ ~hist[p].setSince => maxWait = hist[p].mwAtCall

C6_Witness ==
    \E p \in Procs : hist[p].setup = "error" /\ Done(p) /\ deployment = NoImage

\* C7: when Install fails with already-exists, GetDeployment succeeds and the
\* resolved version is strictly greater than the existing one, the invocation
\* issues exactly one Upgrade, with the options it passed to Install, and
\* polls for health once the upgrade has succeeded.
C7_UpgradeTrigger ==
    \A p \in Procs :
        (Done(p) /\ Observed(p) /\ StrictlyGreater(existingImage[p], tillerImage[p])) =>
            /\ hist[p].nUpgrade = 1
            /\ hist[p].upgradeOpts = hist[p].installOpts
            /\ hist[p].upgradeOpts = Options(tillerImage[p])
            /\ hist[p].upgraded => hist[p].nList >= 1

\* C8: for two references that each hold a ":", isNewerVersion answers
\* whether the text after the final ":" of the new one is a strictly greater
\* semantic version than that of the existing one.
C8_VersionExtraction ==
    \A p \in Procs :
        ( /\ pc[p] \notin {"idle", "setup", "install", "get", "compare"}
          /\ Observed(p)
          /\ existingImage[p] # tillerImage[p]
          /\ Comparable(existingImage[p], tillerImage[p]) )
        => hist[p].newer = IF StrictlyGreater(existingImage[p], tillerImage[p])
                           THEN "true" ELSE "false"

\* C9: when a reference has fewer than two colon-delimited parts or a version
\* that is no semantic version, the comparison answers "newer", Install()
\* issues the upgrade and does not crash.
C9_FailOpen ==
    \A p \in Procs :
        ( /\ Done(p)
          /\ Observed(p)
          /\ existingImage[p] # tillerImage[p]
          /\ ~Comparable(existingImage[p], tillerImage[p]) )
        => hist[p].newer = "true" /\ hist[p].nUpgrade = 1 /\ result[p] # Panic

\* caller p has read an image older than the one it resolved, and is past
\* line 103
SawOlder(p) ==
    /\ Observed(p)
    /\ StrictlyGreater(existingImage[p], tillerImage[p])
    /\ pc[p] \in {"check", "sleep", "done"}

\* C10: two callers that have both read the old image both call Upgrade: the
\* one's upgrade does not hold back the other's.
C10_BothUpgrade ==
    (\A p \in Procs : SawOlder(p)) =>
        /\ \A p \in Procs : hist[p].nUpgrade = 1
        /\ hist[1].nUpgrade + hist[2].nUpgrade = 2

C10_Witness ==
    /\ \A p \in Procs : SawOlder(p) /\ pc[p] \in {"check", "sleep"} /\ hist[p].upgraded
    /\ existingImage[1] = existingImage[2]
    /\ hist[1].nUpgrade + hist[2].nUpgrade = 2

\* The place of a collaborator call in the order Setup, Install,
\* GetDeployment, Upgrade, ListReleases
Rank(call) ==
    IF call = "Setup" THEN 1
    ELSE IF call = "Install" THEN 2
    ELSE IF call = "Get" THEN 3
    ELSE IF call = "Upgrade" THEN 4
    ELSE 5

\* C11: within one invocation the collaborators are called in the order
\* Setup, client.Install, GetDeployment, client.Upgrade, ListReleases; each of
\* the first four at most once, Setup only with a registry configuration and
\* client.Install only after it, GetDeployment only after client.Install
\* answered already-exists, client.Upgrade only after GetDeployment succeeded.
C11_CallOrder ==
    \A p \in Procs :
        LET h == hist[p]
        IN  /\ \A k \in 1..(Len(h.calls) - 1) : Rank(h.calls[k]) < Rank(h.calls[k + 1])
            /\ h.nSetup <= 1 /\ h.nInstall <= 1 /\ h.nGet <= 1 /\ h.nUpgrade <= 1
            /\ (h.nSetup = 1) => h.registry.has
            /\ (h.nInstall = 1) => (h.registry.has <=> h.setup = "ok")
            /\ (h.nGet = 1) => (h.nInstall = 1 /\ h.installed = "exists")
            /\ (h.nUpgrade = 1) => (h.nGet = 1 /\ h.getOk)
            /\ (h.nList >= 1) => (h.installed = "ok" \/ h.upgraded)

\* An invocation that made all five calls, the health check more than once
C11_Witness ==
    \E p \in Procs :
        /\ Done(p)
        /\ hist[p].calls = <<"Setup", "Install", "Get", "Upgrade", "List">>
        /\ hist[p].nList >= 2

\* C12: when client.Install fails with another error than already-exists,
\* when GetDeployment fails, or when client.Upgrade fails, Install() has
\* returned the error (wrapped with "Error installing new helm", as it is,
\* wrapped with "Error upgrading helm") and has made no health check and no
\* later collaborator call.
C12_TerminalFailures ==
    \A p \in Procs :
        LET h == hist[p]
        IN  /\ (h.installed = "error") =>
                   /\ Done(p)
                   /\ result[p] = <<"Error installing new helm">> \o ErrInstall
                   /\ h.nGet = 0 /\ h.nUpgrade = 0 /\ h.nList = 0
                   /\ h.calls[Len(h.calls)] = "Install"
            /\ (h.nGet = 1 /\ ~h.getOk) =>
                   /\ Done(p)
                   /\ result[p] = ErrGet
                   /\ h.nUpgrade = 0 /\ h.nList = 0
                   /\ h.calls[Len(h.calls)] = "Get"
            /\ (h.nUpgrade = 1 /\ ~h.upgraded) =>
                   /\ Done(p)
                   /\ result[p] = <<"Error upgrading helm">> \o ErrUpgrade
                   /\ h.nList = 0
                   /\ h.calls[Len(h.calls)] = "Upgrade"

\* An upgrade that failed after the install met an older tiller
C12_Witness ==
    \E p \in Procs :
        /\ Done(p)
        /\ hist[p].installed = "exists"
        /\ hist[p].nUpgrade = 1
        /\ ~hist[p].upgraded
        /\ result[p] # Nil

C14_ZeroWaitFailsFast ==
    \A p \in Procs :
        (hist[p].mwSince = {0} /\ hist[p].nList >= 1 /\ ~hist[p].anyHealthy) =>
            /\ Done(p)
            /\ result[p] = ErrDeadline
            /\ hist[p].nList = 1
            /\ hist[p].nSleep = 0
            /\ hist[p].slept = 0
            /\ waited[p] = 0

\* A call with maxWait zero that failed its one health check
C14_Witness ==
    \E p \in Procs :
        /\ Done(p)
        /\ hist[p].mwSince = {0}
        /\ hist[p].nList = 1
        /\ ~hist[p].lastHealthy
        /\ result[p] = ErrDeadline

\* C15: maxWait is the argument of the latest SetMaxWait, or 60 seconds when
\* SetMaxWait was never called; no step of Install() changes it, whatever
\* way the invocation ends.
C15_MaxWaitFrame ==
    maxWait = IF lastWait = NeverSet THEN 60 * Second ELSE lastWait

\* An invocation that ran to the deadline error after SetMaxWait(0)
C15_Witness ==
    \E p \in Procs :
        /\ Done(p)
        /\ result[p] = ErrDeadline
        /\ hist[p].mwAtCall = 0
        /\ lastWait = 0
        /\ maxWait = 0

\* The image reference an invocation is to use, from the registry
\* configuration it was called with and the outcome of its Setup()
ExpectedImage(p) ==
    IF hist[p].registry.has /\ hist[p].setup = "ok"
    THEN hist[p].registry.Server \o <<"/tiller", Colon>> \o tillerTag
    ELSE <<"gcr.io/kubernetes-helm", "/tiller", Colon>> \o tillerTag

\* C16: the image passed to client.Install and to client.Upgrade is
\* <registry server>/tiller:<tag> when a registry configuration is present
\* and Setup() succeeded, gcr.io/kubernetes-helm/tiller:<tag> otherwise, from
\* the registry configuration as it is at this invocation.
C16_ImageResolution ==
    \A p \in Procs :
        /\ (hist[p].nInstall = 1) => hist[p].installOpts.ImageSpec = ExpectedImage(p)
        /\ (hist[p].nUpgrade = 1) => hist[p].upgradeOpts.ImageSpec = ExpectedImage(p)
        /\ Running(p) => hist[p].registry = registryConfig

\* A second call that upgrades with the image of a registry set after the
\* first call, which had used another image
C16_Witness ==
    \E p \in Procs :
        /\ Done(p)
        /\ hist[p].registry.has
        /\ hist[p].nUpgrade = 1
        /\ hist[p].upgradeOpts.ImageSpec = hist[p].registry.Server \o <<"/tiller", Colon>> \o tillerTag
        /\ hist[p].prevImage # NoImage
        /\ hist[p].prevImage # hist[p].upgradeOpts.ImageSpec

\* C17: a SetMaxWait that interleaves with an invocation in its polling loop
\* changes neither the deadline nor the slice of that invocation: every
\* deadline test uses the maxWait the invocation was called with, and every
\* sleep is a tenth of it.
C17_SetterLeavesPollingAlone ==
    \A p \in Procs :
        /\ (hist[p].nList >= 1 /\ ~hist[p].anyHealthy) => hist[p].mwRead = hist[p].mwAtCall
        /\ (hist[p].nSleep >= 1) => hist[p].lastSlice = hist[p].mwAtCall \div 10

\* C18: under any interleaving of SetMaxWait with a polling invocation, the
\* deadline error is returned only when the health check just before it
\* failed and the accumulated wait is at least the maxWait read at that
\* check; a health check that succeeds ends the invocation with success.
C18_DeadlineInvariant ==
    \A p \in Procs :
        /\ (Done(p) /\ result[p] = ErrDeadline) =>
               /\ hist[p].nList >= 1
               /\ ~hist[p].lastHealthy
               /\ waited[p] >= hist[p].mwRead
        /\ (hist[p].nList >= 1 /\ hist[p].lastHealthy) =>
               /\ Done(p)
               /\ result[p] = Nil

\* A deadline error after a racing SetMaxWait: the invocation has waited
\* less than the maxWait it was called with
C18_Witness ==
    \E p \in Procs :
        /\ Done(p)
        /\ result[p] = ErrDeadline
        /\ hist[p].setSince
        /\ hist[p].nSleep >= 1
        /\ hist[p].mwRead # hist[p].mwAtCall
        /\ waited[p] < hist[p].mwAtCall

====
